---- MODULE Spec2Model ----
(***************************************************************************)
(* PropertyModifier (src/src/core/props.py): the build.prop rewriting      *)
(* passes of the porting tool, as a state machine over the working tree.   *)
(*                                                                         *)
(* Text is modelled as sequences of tokens.  A token is an indivisible     *)
(* piece of a line: a property key, "=", a value atom, " " (one blank),    *)
(* "#", or a separator.  A line is [txt, nl]: its tokens and its           *)
(* terminator ("LF", "CRLF", or "NONE" for an unterminated last line).     *)
(* A file's content is the sequence of its lines; str.startswith, strip,   *)
(* re.search/re.sub and "in" are computed on the tokens.                   *)
(***************************************************************************)
EXTENDS Integers, Sequences, FiniteSets, TLC

VARIABLES
    tree,        \* target_dir: existing build.prop path -> content on disk
    unreadable,  \* paths whose open() raises
    walk,        \* the order in which rglob("build.prop") yields the paths
    config,      \* devices/common/props_global.json
    scheduler,   \* devices/common/scheduler.json
    ctx,         \* the PortingContext
    now,         \* the clock read by datetime.now()
    pc,          \* the pass run() executes next
    runs,        \* how many times run() has been started
    last,        \* the pass that has just acted
    before,      \* the tree as it was when that pass began
    writes,      \* the write events of that pass, in order
    written,     \* the paths written since the current run() began
    first,       \* the tree as the first run() left it
    components,  \* the values the fingerprint pass resolved
    call         \* the key and value a direct call of the helper is given

vars == <<tree, unreadable, walk, config, scheduler, ctx, now, pc, runs,
          last, before, writes, written, first, components, call>>

-----------------------------------------------------------------------------
(* Paths and partitions *)

ProductProp == "product/etc/build.prop"
SystemProp  == "system/system/build.prop"
VendorProp  == "vendor/build.prop"
VendorOdm   == "vendor/odm/etc/build.prop"
MiExtProp   == "mi_ext/etc/build.prop"
OdmProp     == "odm/etc/build.prop"

Paths == {ProductProp, SystemProp, VendorProp, VendorOdm, MiExtProp, OdmProp}

\* The top-level directory a path lies under.
PartOf(p) ==
    CASE p = ProductProp -> "product"
      [] p = SystemProp  -> "system"
      [] p = VendorProp  -> "vendor"
      [] p = VendorOdm   -> "vendor"
      [] p = MiExtProp   -> "mi_ext"
      [] OTHER           -> "odm"

\* self.ctx.target_dir.rglob("build.prop"): the existing files, in walk order.
rglob(t) == SelectSeq(walk, LAMBDA p : p \in DOMAIN t)

\* (self.ctx.target_dir / part).rglob("build.prop")
rglob_part(t, part) == SelectSeq(walk, LAMBDA p : p \in DOMAIN t /\ PartOf(p) = part)

-----------------------------------------------------------------------------
(* Strings *)

Range(s) == {s[i] : i \in 1..Len(s)}

\* The largest k with the first k tokens of s blank.
RECURSIVE LeadBlanks(_)
LeadBlanks(s) ==
    IF s = <<>> \/ Head(s) # " " THEN 0 ELSE 1 + LeadBlanks(Tail(s))

RECURSIVE TrailBlanks(_)
TrailBlanks(s) ==
    IF s = <<>> \/ s[Len(s)] # " " THEN 0
    ELSE 1 + TrailBlanks(SubSeq(s, 1, Len(s) - 1))

\* str.strip() of a line or a value: blanks and the terminator go.
strip(s) ==
    IF LeadBlanks(s) = Len(s) THEN <<>>
    ELSE SubSeq(s, LeadBlanks(s) + 1, Len(s) - TrailBlanks(s))

\* str.startswith(prefix)
startswith(s, prefix) ==
    /\ Len(s) >= Len(prefix)
    /\ SubSeq(s, 1, Len(prefix)) = prefix

\* The least i with sub found in s at offset i, 0 if there is none.
RECURSIVE FindFrom(_, _, _)
FindFrom(s, sub, i) ==
    IF i + Len(sub) - 1 > Len(s) THEN 0
    ELSE IF SubSeq(s, i, i + Len(sub) - 1) = sub THEN i
    ELSE FindFrom(s, sub, i + 1)

Find(s, sub) == FindFrom(s, sub, 1)

\* f.readlines() / read_text() in text mode: universal newlines turn a CRLF
\* terminator into "\n".
Decode(content) ==
    [i \in 1..Len(content) |->
        [txt |-> content[i].txt,
         nl  |-> IF content[i].nl = "CRLF" THEN "LF" ELSE content[i].nl]]

\* A line written by the program: text followed by "\n".
NewLine(s) == [txt |-> s, nl |-> "LF"]

\* The text added without the "\n" before it: it runs on from an
\* unterminated last line.
AppendProp_no_break(content, s) ==
    IF content # <<>> /\ content[Len(content)].nl = "NONE"
    THEN [content EXCEPT ![Len(content)] = NewLine(@.txt \o s)]
    ELSE content \o <<NewLine(s)>>

\* content + "\n" + text + "\n": the first "\n" ends an unterminated last
\* line, or else stands as an empty line of its own.
AppendProp(content, s) ==
    IF content # <<>> /\ content[Len(content)].nl = "NONE"
    THEN [content EXCEPT ![Len(content)].nl = "LF"] \o <<NewLine(s)>>
    ELSE content \o <<NewLine(<<>>), NewLine(s)>>

\* sub in content (a substring test; no token holds a line break).
Contains(content, sub) == \E i \in 1..Len(content) : Find(content[i].txt, sub) # 0

-----------------------------------------------------------------------------
(* The write log *)

\* One write event: the file, its content before and its content after.
Event(p, old, new) == [path |-> p, old |-> old, new |-> new]

\* What a pass leaves: the tree, its write events, and whether it returned
\* (ok) or raised.
Result(t, w, ok) == [tree |-> t, writes |-> w, ok |-> ok]

\* The files a tree walk reaches: those before the first one whose open()
\* raises.
RECURSIVE Reached(_)
Reached(files) ==
    IF files = <<>> \/ Head(files) \in unreadable THEN <<>>
    ELSE <<Head(files)>> \o Reached(Tail(files))

Raises(files) == \E i \in 1..Len(files) : files[i] \in unreadable

-----------------------------------------------------------------------------
(* The rule engine *)

Rule(prefix, new_val) == [prefix |-> prefix, new_val |-> new_val]

\* f"{k}=" -> f"{k}={value}"
KeyRule(k, value) == Rule(k \o <<"=">>, k \o <<"=">> \o value)

DeprecatedPrefix == <<"ro.miui.density.primaryscale", "=">>

\* replace_loop appending the stripped line where it should append
\* original_line.
RECURSIVE replace_loop_line(_, _, _)
replace_loop_line(original, rules, i) ==
    IF i > Len(rules)
    THEN [replaced |-> FALSE, out |-> <<NewLine(strip(original.txt))>>,
          changed |-> FALSE]
    ELSE IF startswith(strip(original.txt), rules[i].prefix)
    THEN IF strip(original.txt) # rules[i].new_val
         THEN [replaced |-> TRUE, out |-> <<NewLine(rules[i].new_val)>>,
               changed |-> TRUE]
         ELSE [replaced |-> TRUE, out |-> <<original>>, changed |-> FALSE]
    ELSE replace_loop_line(original, rules, i + 1)

\* replace_loop without its break: a later matching rule overrides an
\* earlier one.
RECURSIVE replace_loop_nobreak(_, _, _)
replace_loop_nobreak(original, rules, i) ==
    IF i > Len(rules)
    THEN [replaced |-> FALSE, out |-> <<original>>, changed |-> FALSE]
    ELSE LET later == replace_loop_nobreak(original, rules, i + 1) IN
         IF later.replaced \/ ~startswith(strip(original.txt), rules[i].prefix)
         THEN later
         ELSE IF strip(original.txt) # rules[i].new_val
         THEN [replaced |-> TRUE, out |-> <<NewLine(rules[i].new_val)>>,
               changed |-> TRUE]
         ELSE [replaced |-> TRUE, out |-> <<original>>, changed |-> FALSE]

\* for prefix, new_val in replacements.items(): the first rule whose prefix
\* the stripped line starts with decides the line, and the loop breaks.
RECURSIVE replace_loop(_, _, _)
replace_loop(original, rules, i) ==
    IF i > Len(rules)
    THEN [replaced |-> FALSE, out |-> <<original>>, changed |-> FALSE]
    ELSE IF startswith(strip(original.txt), rules[i].prefix)
    THEN IF strip(original.txt) # rules[i].new_val
         THEN [replaced |-> TRUE, out |-> <<NewLine(rules[i].new_val)>>,
               changed |-> TRUE]
         ELSE [replaced |-> TRUE, out |-> <<original>>, changed |-> FALSE]
    ELSE replace_loop(original, rules, i + 1)

\* One line of the general-info pass without its delete logic.
general_line_keep(original, rules) == replace_loop(original, rules, 1)

\* One line of the general-info pass: replacement, else deletion, else kept.
general_line(original, rules) ==
    LET r == replace_loop(original, rules, 1) IN
    IF r.replaced THEN r
    ELSE IF startswith(strip(original.txt), DeprecatedPrefix)
    THEN [replaced |-> FALSE, out |-> <<>>, changed |-> TRUE]
    ELSE r

\* One line of the fingerprint pass: replacement, else kept.
fingerprint_line(original, rules) == replace_loop(original, rules, 1)

\* for line in lines, with the deletion rule (general-info pass).
RECURSIVE general_lines(_, _)
general_lines(lines, rules) ==
    IF lines = <<>> THEN [new_lines |-> <<>>, file_changed |-> FALSE]
    ELSE LET h == general_line(Head(lines), rules)
             t == general_lines(Tail(lines), rules)
         IN  [new_lines    |-> h.out \o t.new_lines,
              file_changed |-> h.changed \/ t.file_changed]

\* for line in lines, without it (fingerprint pass).
RECURSIVE fingerprint_lines(_, _)
fingerprint_lines(lines, rules) ==
    IF lines = <<>> THEN [new_lines |-> <<>>, file_changed |-> FALSE]
    ELSE LET h == fingerprint_line(Head(lines), rules)
             t == fingerprint_lines(Tail(lines), rules)
         IN  [new_lines    |-> h.out \o t.new_lines,
              file_changed |-> h.changed \/ t.file_changed]

\* The write events of a rule-engine walk over the files, in walk order:
\* a file is written when file_changed (res: path -> what the line loop
\* made of the file as read).
RECURSIVE RuleWrites(_, _, _)
RuleWrites(files, t, res) ==
    IF files = <<>> THEN <<>>
    ELSE LET p == Head(files) IN
         (IF res[p].file_changed THEN <<Event(p, t[p], res[p].new_lines)>>
          ELSE <<>>)
         \o RuleWrites(Tail(files), t, res)

\* The tree after a sequence of write events.
RECURSIVE Apply(_, _)
Apply(t, w) ==
    IF w = <<>> THEN t
    ELSE Apply([t EXCEPT ![Head(w).path] = Head(w).new], Tail(w))

-----------------------------------------------------------------------------
(* The general-info pass *)

build_user == "Bruce"
build_host == "HyperOS-Port"

\* now.strftime("%a %b %d %H:%M:%S UTC %Y") and str(int(now.timestamp()))
build_date == "date@" \o ToString(now)
build_utc  == ToString(now)

fmt_map ==
    [f \in {"{build_date}", "{build_utc}", "{base_code}", "{rom_version}",
            "{build_user}", "{build_host}"} |->
        CASE f = "{build_date}"  -> build_date
          [] f = "{build_utc}"   -> build_utc
          [] f = "{base_code}"   -> ctx.stock_rom_code
          [] f = "{rom_version}" -> ctx.target_rom_version
          [] f = "{build_user}"  -> build_user
          [] OTHER               -> build_host]

\* A replacement field of a template: a token "{name}".
IsField(part) == part \in DOMAIN fmt_map \cup {"{device}"}

\* v.format(**fmt_map) raises KeyError on a field fmt_map lacks.
KeyError(v) == \E i \in 1..Len(v) : IsField(v[i]) /\ v[i] \notin DOMAIN fmt_map

format(v) ==
    [i \in 1..Len(v) |-> IF v[i] \in DOMAIN fmt_map THEN fmt_map[v[i]] ELSE v[i]]

\* dict.update: a key already present keeps its place and takes the new
\* value, a new key goes to the end.
RECURSIVE update(_, _)
update(d, other) ==
    IF other = <<>> THEN d
    ELSE LET e == Head(other)
             hit == {i \in 1..Len(d) : d[i].key = e.key}
         IN  update(IF hit = {} THEN Append(d, e)
                    ELSE [i \in 1..Len(d) |-> IF i \in hit THEN e ELSE d[i]],
                    Tail(other))

\* replacements: common overlaid with eu_rom or cn_rom.
replacements ==
    update(config.common, IF ctx.is_port_eu_rom THEN config.eu_rom ELSE config.cn_rom)

final_replacements ==
    [i \in 1..Len(replacements) |->
        KeyRule(replacements[i].key, format(replacements[i].val))]

\* The pass with each template formatted only when its rule is first needed:
\* the rules ahead of the first bad template are applied and written before
\* the KeyError surfaces.
general_info_lazy(t) ==
    IF config.state # "ok" THEN Result(t, <<>>, TRUE)
    ELSE LET bad == {i \in 1..Len(replacements) : KeyError(replacements[i].val)}
             n == IF bad = {} THEN Len(replacements)
                  ELSE (CHOOSE i \in bad : \A j \in bad : i <= j) - 1
             rules == SubSeq(final_replacements, 1, n)
             res == [p \in DOMAIN t |-> general_lines(Decode(t[p]), rules)]
             w == RuleWrites(Reached(rglob(t)), t, res)
         IN  Result(Apply(t, w), w, bad = {} /\ ~Raises(rglob(t)))

general_info(t) ==
    IF config.state # "ok" THEN Result(t, <<>>, TRUE)
    ELSE IF \E i \in 1..Len(replacements) : KeyError(replacements[i].val)
    THEN Result(t, <<>>, FALSE)
    ELSE LET rules == final_replacements
             res == [p \in DOMAIN t |-> general_lines(Decode(t[p]), rules)]
             w == RuleWrites(Reached(rglob(t)), t, res)
         IN  Result(Apply(t, w), w, ~Raises(rglob(t)))

-----------------------------------------------------------------------------
(* Regular expressions: key=.* on a content read in text mode *)

\* One backslash character, and the two-character sequence of two of them.
Backslash == "\\"
Escaped   == "\\\\"

\* re.sub reads repl as a template: an escaped backslash stands for one
\* backslash.
expand(repl) ==
    [i \in 1..Len(repl) |-> IF repl[i] = Escaped THEN Backslash ELSE repl[i]]

\* re.error, bad escape (end of pattern): the template ends in a backslash.
bad_escape(repl) == Len(repl) > 0 /\ repl[Len(repl)] = Backslash

\* re.sub(key=.*, repl) within one line: the first key= and all that follows
\* it up to the end of the line give way to the expansion of repl.
re_sub_line(txt, key, repl) ==
    LET i == Find(txt, <<key, "=">>) IN
    IF i = 0 THEN txt ELSE SubSeq(txt, 1, i - 1) \o expand(repl)

\* re.sub(key=.*, repl, content): every line is substituted.
re_sub(content, key, repl) ==
    [i \in 1..Len(content) |->
        [content[i] EXCEPT !.txt = re_sub_line(content[i].txt, key, repl)]]

\* re.search(key=.*, content): the first line holding key=, and the text
\* matched there (match.group(0)); found is FALSE when there is no match.
re_search(content, key) ==
    LET hits == {i \in 1..Len(content) : Find(content[i].txt, <<key, "=">>) # 0} IN
    IF hits = {} THEN [found |-> FALSE, group0 |-> <<>>]
    ELSE LET l == CHOOSE i \in hits : \A j \in hits : i <= j
             txt == content[l].txt
         IN  [found |-> TRUE,
              group0 |-> SubSeq(txt, Find(txt, <<key, "=">>), Len(txt))]

-----------------------------------------------------------------------------
(* The density pass *)

DensityKey == "ro.sf.lcd_density"
DensityV2  == "persist.miui.density_v2"

\* self.ctx.stock.get_prop(key): "" stands for None or an empty answer.
get_prop(key) == ctx.stock[key]

base_density ==
    IF get_prop(DensityKey) # "" THEN get_prop(DensityKey) ELSE "560"

\* new_content of one file.
density_content(content) ==
    LET c1 == IF Contains(content, <<DensityKey, "=">>)
              THEN re_sub(content, DensityKey, <<DensityKey, "=", base_density>>)
              ELSE content
    IN  IF Contains(content, <<DensityV2, "=">>)
        THEN re_sub(c1, DensityV2, <<DensityV2, "=", base_density>>)
        ELSE c1

RECURSIVE DensityWrites(_, _)
DensityWrites(files, t) ==
    IF files = <<>> THEN <<>>
    ELSE LET p == Head(files)
             content == Decode(t[p])
         IN  (IF content # density_content(content)
              THEN <<Event(p, t[p], density_content(content))>> ELSE <<>>)
             \o DensityWrites(Tail(files), t)

density(t) ==
    LET files == rglob(t)
        w == DensityWrites(Reached(files), t)
        t1 == Apply(t, w)
        found_in_port ==
            \E i \in 1..Len(files) : Contains(Decode(t[files[i]]), <<DensityKey, "=">>)
    IN  IF Raises(files) THEN Result(t1, w, FALSE)
        ELSE IF ~found_in_port /\ ProductProp \in DOMAIN t
        THEN LET a == Event(ProductProp, t1[ProductProp],
                            AppendProp(t1[ProductProp],
                                       <<DensityKey, "=", base_density>>))
             IN  Result(Apply(t1, <<a>>), Append(w, a), TRUE)
        ELSE Result(t1, w, TRUE)

-----------------------------------------------------------------------------
(* Update-or-append *)

_update_or_append_prop(t, file_path, key, value) ==
    IF file_path \notin DOMAIN t THEN Result(t, <<>>, TRUE)
    ELSE IF file_path \in unreadable THEN Result(t, <<>>, FALSE)
    ELSE LET content == Decode(t[file_path])
             replacement == <<key, "=">> \o value
             match == re_search(content, key)
             new_content ==
                 IF match.found THEN re_sub(content, key, replacement)
                 ELSE AppendProp(content, replacement)
             w == <<Event(file_path, t[file_path], new_content)>>
         IN  IF match.found /\ match.group0 = replacement
             THEN Result(t, <<>>, TRUE)
             ELSE IF match.found /\ bad_escape(replacement)
             THEN Result(t, <<>>, FALSE)
             ELSE Result(Apply(t, w), w, TRUE)

\* A call made after the calls that left r: it does not happen if one of
\* them raised.
Then(r, file_path, key, value) ==
    IF ~r.ok THEN r
    ELSE LET s == _update_or_append_prop(r.tree, file_path, key, value) IN
         Result(s.tree, r.writes \o s.writes, s.ok)

\* for key, value in props.items(): update-or-append each.
RECURSIVE apply_props(_, _, _)
apply_props(r, file_path, props) ==
    IF props = <<>> THEN r
    ELSE apply_props(Then(r, file_path, Head(props).key, Head(props).val),
                     file_path, Tail(props))

-----------------------------------------------------------------------------
(* The specific fixes *)

Cgroup == "persist.sys.millet.cgroup1"

\* The tokens that begin with the letters persist.
PersistTokens ==
    {Cgroup, DensityV2, "persist.sys.background_blur_supported",
     "persist.sys.background_blur_version",
     "persist.sys.miui_animator_sched.bigcores"}

\* "#persist" in content
HasHashPersist(content) ==
    \E i \in 1..Len(content) : \E j \in 1..(Len(content[i].txt) - 1) :
        content[i].txt[j] = "#" /\ content[i].txt[j + 1] \in PersistTokens

\* s.replace(Cgroup, "#" + Cgroup) on one line
RECURSIVE comment_out(_)
comment_out(txt) ==
    IF txt = <<>> THEN <<>>
    ELSE (IF Head(txt) = Cgroup THEN <<"#", Cgroup>> ELSE <<Head(txt)>>)
         \o comment_out(Tail(txt))

millet_ver ==
    IF get_prop("ro.millet.netlink") # "" THEN get_prop("ro.millet.netlink") ELSE "29"

\* Step 4: the vendor file.
vendor_fix(r) ==
    IF ~r.ok \/ VendorProp \notin DOMAIN r.tree THEN r
    ELSE IF VendorProp \in unreadable THEN Result(r.tree, r.writes, FALSE)
    ELSE LET content == Decode(r.tree[VendorProp])
             fixed == [i \in 1..Len(content) |->
                          [content[i] EXCEPT !.txt = comment_out(content[i].txt)]]
             w == <<Event(VendorProp, r.tree[VendorProp], fixed)>>
         IN  IF Contains(content, <<Cgroup>>) /\ ~HasHashPersist(content)
             THEN Result(Apply(r.tree, w), r.writes \o w, TRUE)
             ELSE r

specific_fixes(t) ==
    LET r1 == Then(Result(t, <<>>, TRUE), ProductProp, "ro.miui.cust_erofs", <<"0">>)
        r2 == Then(r1, ProductProp, "ro.millet.netlink", <<millet_ver>>)
        r3 == Then(r2, ProductProp, "persist.sys.background_blur_supported", <<"true">>)
        r4 == Then(r3, ProductProp, "persist.sys.background_blur_version", <<"2">>)
    IN  vendor_fix(r4)

-----------------------------------------------------------------------------
(* Fingerprint regeneration *)

\* The search order with system put before product.
SearchOrder_system_first == <<"system", "product", "vendor", "mi_ext">>

\* Priority: product -> system -> vendor -> mi_ext
SearchOrder == <<"product", "system", "vendor", "mi_ext">>

\* The files get_current_prop opens, in the order it opens them.
RECURSIVE search_files(_, _)
search_files(t, parts) ==
    IF parts = <<>> THEN <<>>
    ELSE rglob_part(t, Head(parts)) \o search_files(t, Tail(parts))

\* for line in f: the first line that starts with key= yields
\* line.split("=", 1)[1].strip(); found is FALSE when no line does.
RECURSIVE scan_lines(_, _)
scan_lines(lines, key) ==
    IF lines = <<>> THEN [found |-> FALSE, value |-> <<>>]
    ELSE LET txt == Head(lines).txt IN
         IF startswith(strip(txt), <<key, "=">>)
         THEN [found |-> TRUE,
               value |-> strip(SubSeq(txt, Find(txt, <<"=">>) + 1, Len(txt)))]
         ELSE scan_lines(Tail(lines), key)

\* The nested loops over the files: a file that cannot be opened is passed
\* over, the first hit is returned, and default when there is none.
RECURSIVE scan_files(_, _, _, _)
scan_files(t, files, key, default) ==
    IF files = <<>> THEN default
    ELSE IF Head(files) \in unreadable THEN scan_files(t, Tail(files), key, default)
    ELSE LET hit == scan_lines(Decode(t[Head(files)]), key) IN
         IF hit.found THEN hit.value
         ELSE scan_files(t, Tail(files), key, default)

\* The search made in the tree as it was when run() began.
get_current_prop_at_start(t, key, default) ==
    scan_files(first, search_files(first, SearchOrder), key, default)

get_current_prop(t, key, default) ==
    scan_files(t, search_files(t, SearchOrder), key, default)

brand(t)       == get_current_prop(t, "ro.product.brand", <<"Xiaomi">>)
name(t)        == get_current_prop(t, "ro.product.mod_device", <<>>)
device(t)      == get_current_prop(t, "ro.product.device", <<"miproduct">>)
version(t)     == get_current_prop(t, "ro.build.version.release", <<>>)
build_id(t)    == get_current_prop(t, "ro.build.id", <<>>)
incremental(t) == get_current_prop(t, "ro.build.version.incremental", <<>>)
build_type(t)  == get_current_prop(t, "ro.build.type", <<"user">>)
tags(t)        == get_current_prop(t, "ro.build.tags", <<"release-keys">>)

\* The fingerprint with name and device in each other's place.
new_fingerprint_swapped(t) ==
    brand(t) \o <<"/">> \o device(t) \o <<"/">> \o name(t) \o <<":">>
    \o version(t) \o <<"/">> \o build_id(t) \o <<"/">> \o incremental(t)
    \o <<":">> \o build_type(t) \o <<"/">> \o tags(t)

new_fingerprint(t) ==
    brand(t) \o <<"/">> \o name(t) \o <<"/">> \o device(t) \o <<":">>
    \o version(t) \o <<"/">> \o build_id(t) \o <<"/">> \o incremental(t)
    \o <<":">> \o build_type(t) \o <<"/">> \o tags(t)

new_description(t) ==
    name(t) \o <<"-">> \o build_type(t) \o <<" ">> \o version(t) \o <<" ">>
    \o build_id(t) \o <<" ">> \o incremental(t) \o <<" ">> \o tags(t)

\* The local variables brand .. tags of the pass.
resolve(t) ==
    [brand |-> brand(t), name |-> name(t), device |-> device(t),
     version |-> version(t), build_id |-> build_id(t),
     incremental |-> incremental(t), build_type |-> build_type(t),
     tags |-> tags(t)]

FingerprintKeys ==
    <<"ro.build.fingerprint", "ro.bootimage.build.fingerprint",
      "ro.system.build.fingerprint", "ro.product.build.fingerprint",
      "ro.system_ext.build.fingerprint", "ro.vendor.build.fingerprint",
      "ro.odm.build.fingerprint">>

DescriptionKeys == <<"ro.build.description", "ro.system.build.description">>

\* The replacements table of the pass, in its written order.
fingerprint_rules(t) ==
    [i \in 1..Len(FingerprintKeys) |->
        KeyRule(<<FingerprintKeys[i]>>, new_fingerprint(t))]
    \o [i \in 1..Len(DescriptionKeys) |->
        KeyRule(<<DescriptionKeys[i]>>, new_description(t))]

\* The files of the walk that can be read: the others are passed over.
Readable(files) == SelectSeq(files, LAMBDA p : p \notin unreadable)

\* The pass with the values resolved anew for each file, from that file.
fingerprint_per_file(t) ==
    LET res == [p \in DOMAIN t |->
                   fingerprint_lines(Decode(t[p]),
                                     fingerprint_rules([q \in {p} |-> t[p]]))]
        w == RuleWrites(Readable(rglob(t)), t, res)
    IN  Result(Apply(t, w), w, TRUE)

fingerprint(t) ==
    LET rules == fingerprint_rules(t)
        res == [p \in DOMAIN t |-> fingerprint_lines(Decode(t[p]), rules)]
        w == RuleWrites(Readable(rglob(t)), t, res)
    IN  Result(Apply(t, w), w, TRUE)

-----------------------------------------------------------------------------
(* Scheduler tuning *)

get_platform_code(t) ==
    IF VendorProp \notin DOMAIN t \/ VendorProp \in unreadable THEN "unknown"
    ELSE LET content == Decode(t[VendorProp]) IN
         IF Contains(content, <<"sm8550">>) THEN "sm8550"
         ELSE IF Contains(content, <<"sm8450">>) THEN "sm8450"
         ELSE IF Contains(content, <<"sm8250">>) THEN "sm8250"
         ELSE "unknown"

\* k in config, config[k] and config.get(k, {}) on the loaded table (an
\* absent scheduler.json loads as the empty table).
Has(table, k) == \E i \in 1..Len(table) : table[i].name = k

Get(table, k) ==
    IF Has(table, k)
    THEN table[CHOOSE i \in 1..Len(table) : table[i].name = k].props
    ELSE <<>>

\* The match logic with the version fallback not held to an unknown
\* platform.
target_props_any_platform(table, platform, android_ver) ==
    IF Has(table, platform) THEN Get(table, platform)
    ELSE IF android_ver = "15" /\ Has(table, "android_15")
    THEN Get(table, "android_15")
    ELSE Get(table, "default")

\* The match logic.
target_props(table, platform, android_ver) ==
    IF Has(table, platform) THEN Get(table, platform)
    ELSE IF platform = "unknown" /\ android_ver = "15" /\ Has(table, "android_15")
    THEN Get(table, "android_15")
    ELSE Get(table, "default")

core_affinity(t) ==
    IF ProductProp \notin DOMAIN t \/ scheduler.state = "malformed"
    THEN Result(t, <<>>, TRUE)
    ELSE LET table == IF scheduler.state = "missing" THEN <<>> ELSE scheduler.table
             props == target_props(table, get_platform_code(t),
                                   ctx.port_android_version)
         IN  apply_props(Result(t, <<>>, TRUE), ProductProp, props)

-----------------------------------------------------------------------------
(* run(): the passes, one action each *)

\* A pass has acted: the tree and the log take its result, and run() goes on
\* to the next pass unless the pass raised.
Finish(pass, r, next) ==
    /\ tree' = r.tree
    /\ writes' = r.writes
    /\ written' = written \cup {r.writes[i].path : i \in 1..Len(r.writes)}
    /\ before' = tree
    /\ last' = pass
    /\ pc' = IF r.ok THEN next ELSE "failed"
    /\ components' = IF pass = "fingerprint" THEN resolve(tree) ELSE components
    /\ UNCHANGED <<unreadable, walk, config, scheduler, ctx, now, runs, first, call>>

_update_general_info ==
    /\ pc = "general"
    /\ Finish("general", general_info(tree), "density")

_update_density ==
    /\ pc = "density"
    /\ Finish("density", density(tree), "fixes")

_apply_specific_fixes ==
    /\ pc = "fixes"
    /\ Finish("fixes", specific_fixes(tree), "fingerprint")

_regenerate_fingerprint ==
    /\ pc = "fingerprint"
    /\ Finish("fingerprint", fingerprint(tree), "scheduler")

_optimize_core_affinity ==
    /\ pc = "scheduler"
    /\ Finish("scheduler", core_affinity(tree), "done")

MaxRuns == 2
MaxNow  == 1

\* run() is called again on the tree it left; the clock may have moved on.
run ==
    /\ pc = "done"
    /\ runs < MaxRuns
    /\ pc' = "general"
    /\ runs' = runs + 1
    /\ first' = tree
    /\ written' = {}
    /\ writes' = <<>>
    /\ before' = tree
    /\ last' = "run"
    /\ now' \in {n \in {now, now + 1} : n <= MaxNow}
    /\ UNCHANGED <<tree, unreadable, walk, config, scheduler, ctx, components, call>>

\* A caller invokes _update_or_append_prop on the product file.
update_or_append ==
    /\ pc = "call"
    /\ runs < MaxRuns
    /\ runs' = runs + 1
    /\ LET r == _update_or_append_prop(tree, ProductProp, call.key, call.value) IN
        /\ tree' = r.tree
        /\ writes' = r.writes
        /\ written' = written \cup {r.writes[i].path : i \in 1..Len(r.writes)}
        /\ pc' = IF r.ok THEN "call" ELSE "failed"
        /\ first' = IF runs = 0 THEN r.tree ELSE first
    /\ before' = tree
    /\ last' = "call"
    /\ UNCHANGED <<unreadable, walk, config, scheduler, ctx, now, components, call>>

\* A caller invokes once more the pass that has just returned.
again ==
    /\ pc \notin {"general", "call", "failed"}
    /\ last \in {"density", "fixes", "fingerprint", "scheduler"}
    /\ runs < MaxRuns
    /\ runs' = runs + 1
    /\ pc' = last
    /\ last' = "again"
    /\ UNCHANGED <<tree, unreadable, walk, config, scheduler, ctx, now,
                   before, writes, written, first, components, call>>

-----------------------------------------------------------------------------
(* Initial states: the inputs the checks draw from *)

MaxLines == 2

\* All sequences over S of at most n elements.
SeqsUpTo(S, n) == UNION {[1..k -> S] : k \in 0..n}

\* A file of the given lines whose terminators are all "\n", all CRLF, or
\* "\n" but for an unterminated last line.
Styles == {"LF", "CRLF", "NOEOL"}

File(txts, style) ==
    [i \in 1..Len(txts) |->
        [txt |-> txts[i],
         nl  |-> IF style = "CRLF" THEN "CRLF"
                 ELSE IF style = "NOEOL" /\ i = Len(txts) THEN "NONE"
                 ELSE "LF"]]

\* The contents over a pool of lines; a text cannot end in an unterminated
\* empty line.
Files(pool, n) ==
    {File(txts, style) : txts \in SeqsUpTo(pool, n), style \in Styles}
    \ {c \in {File(txts, "NOEOL") : txts \in SeqsUpTo(pool, n)} :
          c # <<>> /\ c[Len(c)].txt = <<>>}

AlphabeticalWalk == <<MiExtProp, OdmProp, ProductProp, SystemProp, VendorProp, VendorOdm>>
ReverseWalk == <<VendorOdm, VendorProp, SystemProp, ProductProp, OdmProp, MiExtProp>>
Walks == {AlphabeticalWalk, ReverseWalk}

NoStock == [k \in {DensityKey, "ro.millet.netlink"} |-> ""]

Context(eu, android, stock) ==
    [stock_rom_code |-> "OS2.0.1.0.VNACNXM",
     target_rom_version |-> "OS2.0.200.5.WOCCNXM",
     is_port_eu_rom |-> eu,
     port_android_version |-> android,
     stock |-> stock]

NoConfig == [state |-> "missing", common |-> <<>>, eu_rom |-> <<>>, cn_rom |-> <<>>]
NoScheduler == [state |-> "missing", table |-> <<>>]
NoComponents == resolve(<<>>)
NoCall == [key |-> "", value |-> <<>>]

\* The state in which position p of the program is about to act on tree t.
Start(t, u, wk, cf, sc, cx, p, n, cl) ==
    /\ tree = t
    /\ unreadable = u
    /\ walk = wk
    /\ config = cf
    /\ scheduler = sc
    /\ ctx = cx
    /\ now = 0
    /\ pc = p
    /\ runs = n
    /\ last = "init"
    /\ before = t
    /\ writes = <<>>
    /\ written = {}
    /\ first = t
    /\ components = NoComponents
    /\ call = cl

\* A tree of the one file p.
Only(p, content) == [q \in {p} |-> content]

-----------------------------------------------------------------------------
(* Update-or-append called directly *)

Erofs == "ro.miui.cust_erofs"

HelperPool ==
    {<<Erofs, "=", "1">>, <<Erofs, "=", "0">>, <<"#", Erofs, "=", "1">>,
     <<" ", Erofs, "=", "0", " ">>, <<"vendor.", Erofs, "=", "1">>,
     <<"ro.product.brand", "=", "Xiaomi">>, <<>>}

InitHelper ==
    \E t \in {<<>>} \cup {Only(ProductProp, c) : c \in Files(HelperPool, MaxLines)} :
    \E v \in {<<"0">>, <<"1">>, <<>>, <<"a", Escaped, "b">>, <<"a", Backslash>>} :
        Start(t, {}, AlphabeticalWalk, NoConfig, NoScheduler,
              Context(FALSE, "15", NoStock), "call", 0,
              [key |-> Erofs, value |-> v])

SpecHelper == InitHelper /\ [][update_or_append]_vars

\* C7: update-or-append is idempotent: a call that immediately follows a
\* call with the same file, key and value writes nothing and leaves the
\* file's content as it was.
C7_Idempotent ==
    (last = "call" /\ runs >= 2) => (writes = <<>> /\ tree = before)

-----------------------------------------------------------------------------
(* The rule engine: the general-info pass and the fingerprint pass *)

Host == "ro.build.host"

RulePool ==
    {<<Host, "=", "old">>, <<Host, "=", "x", "=", "y">>,
     <<" ", Host, "=", "HyperOS-Port", " ">>,
     <<"ro.miui.density.primaryscale", "=", "1.0">>,
     <<" ", "ro.product.brand", "=", "Xiaomi", " ">>,
     <<"#", Host, "=", "old">>,
     <<"ro.build.fingerprint", "=", "old">>}

Entry(k, v) == [key |-> k, val |-> v]

Config(common, eu, cn) ==
    [state |-> "ok", common |-> common, eu_rom |-> eu, cn_rom |-> cn]

RuleConfigs ==
    {NoConfig,
     Config(<<Entry(<<Host>>, <<"{build_host}">>), Entry(<<Host, "=", "x">>, <<"2">>)>>,
            <<>>, <<>>),
     Config(<<Entry(<<Host, "=", "x">>, <<"2">>), Entry(<<Host>>, <<"{build_host}">>)>>,
            <<>>, <<>>),
     Config(<<Entry(<<"ro.miui.density.primaryscale">>, <<"2.0">>)>>,
            <<>>, <<Entry(<<Host>>, <<"{build_user}">>)>>),
     Config(<<Entry(<<Host>>, <<"a">>), Entry(<<"ro.build.date.utc">>, <<"{build_utc}">>)>>,
            <<Entry(<<Host>>, <<"eu">>)>>, <<Entry(<<Host>>, <<"{build_host}">>)>>)}

InitRules ==
    \E c \in Files(RulePool, MaxLines) : \E cf \in RuleConfigs :
    \E p \in {"general", "fingerprint"} :
        Start(Only(ProductProp, c), {}, AlphabeticalWalk, cf, NoScheduler,
              Context(FALSE, "15", NoStock), p, 1, NoCall)

SpecRules == InitRules /\ [][_update_general_info \/ _regenerate_fingerprint]_vars

\* The rules of the rule-engine pass that has just acted.
PassRules ==
    IF last = "fingerprint" THEN fingerprint_rules(before)
    ELSE IF config.state = "ok" THEN final_replacements
    ELSE <<>>

\* The rules of table R whose prefix the stripped line starts with.
Matching(txt, R) == {i \in 1..Len(R) : startswith(strip(txt), R[i].prefix)}

\* The line starts with no active prefix of the pass.
Inactive(line, R) ==
    /\ Matching(line.txt, R) = {}
    /\ ~(last = "general" /\ startswith(strip(line.txt), DeprecatedPrefix))

Acted == last \in {"general", "fingerprint"} /\ pc # "failed"

WrittenNow == {writes[i].path : i \in 1..Len(writes)}

\* C2 as claimed: every line that starts with no active prefix is in the
\* resulting file as it was on disk, terminator included, in the same order.
C2_ByteForByte ==
    LET R == PassRules IN
    Acted => \A p \in DOMAIN tree :
        SelectSeq(tree[p], LAMBDA l : Inactive(l, R))
            = SelectSeq(before[p], LAMBDA l : Inactive(l, R))

\* C2: every line that starts with no active prefix is in the resulting file
\* as the text-mode read delivered it (its blanks kept, a CRLF read as "\n"),
\* in the same order; a file the pass does not rewrite keeps its content.
C2_Frame ==
    LET R == PassRules IN
    Acted => \A p \in DOMAIN tree :
        IF p \in WrittenNow
        THEN SelectSeq(tree[p], LAMBDA l : Inactive(l, R))
                 = SelectSeq(Decode(before[p]), LAMBDA l : Inactive(l, R))
        ELSE tree[p] = before[p]

\* A rewritten file held a line with blanks around it that no rule touches.
C2_Witness ==
    LET R == PassRules IN
    /\ Acted
    /\ \E p \in WrittenNow : \E i \in 1..Len(before[p]) :
        /\ Inactive(before[p][i], R)
        /\ Head(before[p][i].txt) = " "
        /\ before[p][i] \in Range(tree[p])

Least(S) == CHOOSE i \in S : \A j \in S : i <= j

\* The deletion rule removes the line.
Deleted(line, R) ==
    /\ last = "general"
    /\ config.state = "ok"
    /\ Matching(line.txt, R) = {}
    /\ startswith(strip(line.txt), DeprecatedPrefix)

\* Where line i of the file read is found in the file left.
Position(lines, i, R) ==
    i - Cardinality({k \in 1..(i - 1) : Deleted(lines[k], R)})

\* C3: a line that starts with the prefix of a rule leaves the pass as the
\* first such rule in table order makes it: that rule's replacement, or the
\* line itself if it already reads so.  No later rule, and not the deletion
\* rule, acts on it.
C3_FirstMatch ==
    LET R == PassRules IN
    Acted => \A p \in DOMAIN tree : \A i \in 1..Len(before[p]) :
        LET txt == before[p][i].txt
            rule == R[Least(Matching(txt, R))]
        IN  Matching(txt, R) # {} =>
                /\ Position(before[p], i, R) <= Len(tree[p])
                /\ tree[p][Position(before[p], i, R)].txt =
                       IF strip(txt) = rule.new_val THEN txt ELSE rule.new_val

\* A line started with the prefixes of two rules of different replacements,
\* and the first of them rewrote it.
C3_Witness ==
    LET R == PassRules IN
    /\ Acted
    /\ \E p \in WrittenNow : \E i \in 1..Len(before[p]) :
        \E a, b \in Matching(before[p][i].txt, R) :
            /\ a < b
            /\ R[a].new_val # R[b].new_val
            /\ strip(before[p][i].txt) # R[a].new_val

-----------------------------------------------------------------------------
(* The fingerprint pass over a tree of several partitions *)

Lf(txts) == File(txts, "LF")

\* What each path may hold; <<>> in a menu stands for no such file.
Menu(p) ==
    CASE p = ProductProp ->
            {<<>>,
             Lf(<<<<"ro.product.brand", "=", "POCO">>>>),
             Lf(<<<<"ro.product.mod_device", "=", "marble_global">>,
                  <<"ro.build.fingerprint", "=", "stock">>>>),
             Lf(<<<<"ro.build.tags", "=">>, <<"ro.build.description", "=", "stock">>>>),
             Lf(<<<<"ro.product.mod_device", "=", "Port">>,
                  <<"ro.build.version.release", "=", "14">>,
                  <<"ro.build.id", "=", "AB1">>,
                  <<"ro.build.version.incremental", "=", "100">>>>)}
      [] p = SystemProp ->
            {<<>>,
             Lf(<<<<" ", "ro.product.brand", "=", " ", "Redmi", " ">>,
                  <<"ro.product.mod_device", "=", "marble">>>>),
             Lf(<<<<"ro.system.build.fingerprint", "=", "port">>,
                  <<"ro.system.build.description", "=", "port">>>>),
             Lf([i \in 1..Len(FingerprintKeys) |->
                     <<FingerprintKeys[i], "=", "stock">>]
                \o [i \in 1..Len(DescriptionKeys) |->
                     <<DescriptionKeys[i], "=", "stock">>])}
      [] p = VendorProp ->
            {<<>>,
             Lf(<<<<"ro.product.brand", "=", "qcom">>>>),
             Lf(<<<<"#", "ro.product.brand", "=", "none">>,
                  <<"ro.vendor.build.fingerprint", "=", "base">>>>)}
      [] p = VendorOdm ->
            {<<>>, Lf(<<<<"ro.product.brand", "=", "odm">>>>)}
      [] p = MiExtProp ->
            {<<>>,
             Lf(<<<<"ro.product.brand", "=", "mi_ext">>,
                  <<"ro.build.fingerprint", "=", "ext">>>>)}
      [] OTHER ->
            {<<>>,
             Lf(<<<<"ro.product.brand", "=", "other">>,
                  <<"ro.odm.build.fingerprint", "=", "base">>>>)}

\* The tree that holds, of the paths, those whose choice is a content.
TreeOf(choice) ==
    [p \in {q \in DOMAIN choice : choice[q] # <<>>} |-> choice[p]]

Trees ==
    {TreeOf((ProductProp :> a) @@ (SystemProp :> b) @@ (VendorProp :> c)
            @@ (VendorOdm :> d) @@ (MiExtProp :> e) @@ (OdmProp :> f)) :
        a \in Menu(ProductProp), b \in Menu(SystemProp), c \in Menu(VendorProp),
        d \in Menu(VendorOdm), e \in Menu(MiExtProp), f \in Menu(OdmProp)}

InitFingerprint ==
    \E t \in Trees : \E u \in {{}} \cup {{p} : p \in DOMAIN t} : \E wk \in Walks :
        Start(t, u, wk, NoConfig, NoScheduler, Context(FALSE, "15", NoStock),
              "fingerprint", 1, NoCall)

SpecFingerprint == InitFingerprint /\ [][_regenerate_fingerprint]_vars

\* The files of the tree that can be read.
Open == DOMAIN tree \ unreadable

\* The lines, as <<path, index>>, of the readable files that start with one
\* of the keys.
LinesOf(keys) ==
    {l \in UNION {{<<p, i>> : i \in 1..Len(tree[p])} : p \in Open} :
        \E k \in 1..Len(keys) :
            startswith(strip(tree[l[1]][l[2]].txt), <<keys[k], "=">>)}

\* The value of a key=value line.
ValueAt(l) ==
    LET s == strip(tree[l[1]][l[2]].txt) IN SubSeq(s, 3, Len(s))

\* C4: after the fingerprint pass all lines of the readable files that start
\* with a fingerprint key carry one value, and all that start with a
\* description key carry one value.
C4_OneValue ==
    last = "fingerprint" =>
        /\ \A a, b \in LinesOf(FingerprintKeys) : ValueAt(a) = ValueAt(b)
        /\ \A a, b \in LinesOf(DescriptionKeys) : ValueAt(a) = ValueAt(b)

\* Two files held different values under different fingerprint keys, and the
\* pass has rewritten both.
C4_Witness ==
    /\ last = "fingerprint"
    /\ \E a, b \in LinesOf(FingerprintKeys) :
        /\ a[1] # b[1]
        /\ {a[1], b[1]} \subseteq WrittenNow
        /\ before[a[1]][a[2]].txt # before[b[1]][b[2]].txt
        /\ before[a[1]][a[2]].txt[1] # before[b[1]][b[2]].txt[1]

\* The components, their keys and their literal defaults.
Component(field, key, default) == [field |-> field, key |-> key, default |-> default]

Components ==
    {Component("brand", "ro.product.brand", <<"Xiaomi">>),
     Component("name", "ro.product.mod_device", <<>>),
     Component("device", "ro.product.device", <<"miproduct">>),
     Component("version", "ro.build.version.release", <<>>),
     Component("build_id", "ro.build.id", <<>>),
     Component("incremental", "ro.build.version.incremental", <<>>),
     Component("build_type", "ro.build.type", <<"user">>),
     Component("tags", "ro.build.tags", <<"release-keys">>)}

\* The lines of a content that start with key=.
KeyLines(content, key) ==
    {i \in 1..Len(content) : startswith(strip(content[i].txt), <<key, "=">>)}

\* The readable files of a partition that held such a line when the pass
\* began.
Holders(part, key) ==
    {p \in DOMAIN before \ unreadable :
        PartOf(p) = part /\ KeyLines(before[p], key) # {}}

\* The value of the first such line of a file.
FirstValue(p, key) ==
    LET s == strip(before[p][Least(KeyLines(before[p], key))].txt) IN
    strip(SubSeq(s, 3, Len(s)))

\* The files of a partition, readable or not, that held such a line.
Keepers(part, key) ==
    {p \in DOMAIN before : PartOf(p) = part /\ KeyLines(before[p], key) # {}}

\* C5 as claimed: each component is the value found in the earliest
\* partition, in the order product, system, vendor, mi_ext, that has a file
\* with a line starting with the key, and the literal default exactly when
\* no searched partition has such a file.
C5_AnyFile ==
    last = "fingerprint" => \A c \in Components :
        LET order == <<"product", "system", "vendor", "mi_ext">>
            parts == {i \in 1..Len(order) : Keepers(order[i], c.key) # {}}
        IN  IF parts = {} THEN components[c.field] = c.default
            ELSE \E p \in Keepers(order[Least(parts)], c.key) :
                     components[c.field] = FirstValue(p, c.key)

\* C5: each component is the value found in the earliest partition, in the
\* order product, system, vendor, mi_ext, that has a readable file with a
\* line starting with the key, and the literal default when no partition
\* has one.
C5_Priority ==
    last = "fingerprint" => \A c \in Components :
        LET order == <<"product", "system", "vendor", "mi_ext">>
            parts == {i \in 1..Len(order) : Holders(order[i], c.key) # {}}
        IN  IF parts = {} THEN components[c.field] = c.default
            ELSE \E p \in Holders(order[Least(parts)], c.key) :
                     components[c.field] = FirstValue(p, c.key)

\* The key is in product and in a later partition with another value, and
\* in another run of the search only outside the searched partitions.
C5_Witness ==
    /\ last = "fingerprint"
    /\ Holders("product", "ro.product.brand") # {}
    /\ Holders("system", "ro.product.brand") # {}
    /\ Holders("vendor", "ro.product.mod_device") = {}
    /\ Holders("product", "ro.product.mod_device") = {}
    /\ Holders("system", "ro.product.mod_device") # {}
    /\ Holders("odm", "ro.product.brand") # {}
    /\ components.brand = <<"POCO">>
    /\ components.name = <<"marble">>
    /\ components.device = <<"miproduct">>

-----------------------------------------------------------------------------
(* Scheduler tuning *)

Sched == "persist.sys.miui_animator_sched.bigcores"

Profile(k, props) == [name |-> k, props |-> props]

\* The entries a scheduler.json is made of here: each sets Sched to a value
\* of its own.
Profiles ==
    <<Profile("sm8550", <<[key |-> Sched, val |-> <<"3-7">>]>>),
      Profile("sm8250", <<[key |-> Sched, val |-> <<"4-7">>]>>),
      Profile("android_15", <<[key |-> Sched, val |-> <<"4-6">>]>>),
      Profile("default", <<[key |-> "ro.example", val |-> <<"1">>],
                           [key |-> Sched, val |-> <<"0-7">>]>>)>>

\* The tables: every selection of the entries, in their order.
Tables ==
    {SelectSeq(Profiles, LAMBDA e : e.name \in S) :
        S \in SUBSET {Profiles[i].name : i \in 1..Len(Profiles)}}

Schedulers ==
    {NoScheduler, [state |-> "malformed", table |-> <<>>]}
    \cup {[state |-> "ok", table |-> tb] : tb \in Tables}

Platform == <<"ro.board.platform", "=">>

SchedTrees ==
    {TreeOf((ProductProp :> a) @@ (VendorProp :> b)) :
        a \in {<<>>, Lf(<<<<"ro.product.brand", "=", "Xiaomi">>>>),
               Lf(<<<<Sched, "=", "0-3">>>>)},
        b \in {<<>>,
               Lf(<<Platform \o <<"kalama">>>>),
               Lf(<<Platform \o <<"sm8550">>>>),
               Lf(<<Platform \o <<"sm8450">>>>),
               Lf(<<Platform \o <<"sm8250">>>>),
               Lf(<<Platform \o <<"sm8250">>,
                    <<"ro.soc.model", "=", "sm8550">>>>)}}

InitScheduler ==
    \E t \in SchedTrees : \E u \in {{}, {VendorProp} \cap DOMAIN t} :
    \E sc \in Schedulers : \E android \in {"14", "15"} :
        Start(t, u, AlphabeticalWalk, NoConfig, sc,
              Context(FALSE, android, NoStock), "scheduler", 1, NoCall)

SpecScheduler == InitScheduler /\ [][_optimize_core_affinity]_vars

\* Every property of the set stands in the product file.
Applied(props) ==
    \A i \in 1..Len(props) :
        Contains(tree[ProductProp], <<props[i].key, "=">> \o props[i].val)

\* The pass has gone through its selection: the product file exists and the
\* table was loaded or found absent.
Selected ==
    /\ last = "scheduler"
    /\ pc # "failed"
    /\ ProductProp \in DOMAIN tree
    /\ scheduler.state # "malformed"

\* C6: the set applied is the detected platform's entry if the table has
\* one; else the android_15 entry if the platform is unknown, the Android
\* version is "15" and the table has that entry; else the default entry.
\* A platform that is known but has no entry gets the default set and never
\* the android_15 set.
C6_Selection ==
    LET platform == get_platform_code(before)
        table == scheduler.table
        fallback == /\ platform = "unknown"
                    /\ ctx.port_android_version = "15"
                    /\ Has(table, "android_15")
    IN  Selected =>
            /\ Has(table, platform) => Applied(Get(table, platform))
            /\ (~Has(table, platform) /\ fallback) => Applied(Get(table, "android_15"))
            /\ (~Has(table, platform) /\ ~fallback) => Applied(Get(table, "default"))
            /\ (~Has(table, platform) /\ platform # "unknown") =>
                   ~Contains(tree[ProductProp], <<Sched, "=", "4-6">>)
            /\ \A i \in 1..Len(writes) : writes[i].path = ProductProp

\* sm8450 was detected, the table has no sm8450 entry but has android_15 and
\* default, the version is "15", and the default set was written.
C6_Witness ==
    /\ Selected
    /\ get_platform_code(before) = "sm8450"
    /\ ctx.port_android_version = "15"
    /\ Has(scheduler.table, "android_15")
    /\ Has(scheduler.table, "default")
    /\ ~Has(scheduler.table, "sm8450")
    /\ Contains(tree[ProductProp], <<"ro.example", "=", "1">>)
    /\ writes # <<>>

-----------------------------------------------------------------------------
(* The density pass *)

DensityPool ==
    {<<"ro.product.brand", "=", "Xiaomi">>,
     <<DensityV2, "=", "440", " ">>,
     <<"#", DensityKey, "=", "480">>,
     <<" ", DensityKey, "=", "480">>}

DensityTrees ==
    {TreeOf((ProductProp :> <<>>) @@ (VendorProp :> b)) :
        b \in {<<>>, Lf(<<<<DensityKey, "=", "440">>>>)}}
    \cup
    {(ProductProp :> a) @@ TreeOf((VendorProp :> b) @@ (SystemProp :> c)) :
        a \in Files(DensityPool, MaxLines),
        b \in {<<>>,
               Lf(<<<<DensityV2, "=", "440">>>>),
               File(<<<<"ro.product.brand", "=", "Xiaomi">>,
                      <<"vendor.", DensityV2, "=", "560", " ">>>>, "CRLF")},
        c \in {<<>>,
               File(<<<<"ro.product.brand", "=", "Xiaomi">>>>, "CRLF")}}

Stocks == {NoStock, [NoStock EXCEPT ![DensityKey] = "440"]}

InitDensity ==
    \E t \in DensityTrees : \E st \in Stocks :
        Start(t, {}, AlphabeticalWalk, NoConfig, NoScheduler,
              Context(FALSE, "15", st), "density", 1, NoCall)

SpecDensity == InitDensity /\ [][_update_density]_vars

\* Scenario A: the pass has acted, the stock accessor had no density and no
\* file of the tree held ro.sf.lcd_density=.
ScenarioA ==
    /\ last = "density"
    /\ pc # "failed"
    /\ get_prop(DensityKey) = ""
    /\ \A p \in DOMAIN before : ~Contains(before[p], <<DensityKey, "=">>)

\* new is old with the line ro.sf.lcd_density=560 added at its end: the
\* lines of old keep their text, and an unterminated last line is ended.
Gained(old, new) ==
    /\ Len(new) \in {Len(old) + 1, Len(old) + 2}
    /\ new[Len(new)] = NewLine(<<DensityKey, "=", "560">>)
    /\ \A i \in 1..Len(old) :
        /\ new[i].txt = old[i].txt
        /\ new[i].nl = IF old[i].nl = "NONE" THEN "LF" ELSE old[i].nl
    /\ Len(new) = Len(old) + 2 => new[Len(old) + 1] = NewLine(<<>>)

V2Line(line) ==
    LET i == Find(line.txt, <<DensityV2, "=">>) IN
    IF i = 0 THEN line
    ELSE [line EXCEPT !.txt = SubSeq(line.txt, 1, i + 1) \o <<"560">>]

\* A content with its persist.miui.density_v2= lines so rewritten: as read
\* in text mode if that changes a line, else as it is on disk.
V2File(content) ==
    IF \A i \in 1..Len(content) : V2Line(content[i]) = content[i] THEN content
    ELSE [i \in 1..Len(content) |-> V2Line(Decode(content)[i])]

-----------------------------------------------------------------------------
(* The specific fixes *)

FixPool ==
    {<<Cgroup, "=", "1">>, <<" ", Cgroup, "=", "1">>, <<"#", Cgroup, "=", "1">>,
     <<"#", DensityV2, "=", "440">>, <<"ro.product.brand", "=", "Xiaomi">>}

FixTrees ==
    {TreeOf((ProductProp :> a) @@ (VendorProp :> <<>>)) @@ (VendorProp :> b) :
        a \in {<<>>, Lf(<<<<Erofs, "=", "1">>>>),
               File(<<<<"#", "ro.millet.netlink", "=", "29">>>>, "NOEOL")},
        b \in Files(FixPool, MaxLines)}
    \cup {TreeOf((ProductProp :> Lf(<<<<Erofs, "=", "0">>>>)) @@ (VendorProp :> <<>>))}

InitFixes ==
    \E t \in FixTrees :
    \E st \in {NoStock, [NoStock EXCEPT !["ro.millet.netlink"] = "30"]} :
        Start(t, {}, AlphabeticalWalk, NoConfig, NoScheduler,
              Context(FALSE, "15", st), "fixes", 1, NoCall)

SpecFixes == InitFixes /\ [][_apply_specific_fixes \/ again]_vars

\* C9: a line of the vendor file that reads persist.sys.millet.cgroup1=1 and
\* is not commented out reads #persist.sys.millet.cgroup1=1 after the pass,
\* and the pass run again leaves the vendor file as it was.
C9_CommentedOut ==
    (last = "fixes" /\ pc # "failed" /\ VendorProp \in DOMAIN tree) =>
        /\ runs = 1 =>
              \A i \in 1..Len(before[VendorProp]) :
                  strip(before[VendorProp][i].txt) = <<Cgroup, "=", "1">> =>
                      strip(tree[VendorProp][i].txt) = <<"#", Cgroup, "=", "1">>
        /\ runs >= 2 => tree[VendorProp] = before[VendorProp]

-----------------------------------------------------------------------------
(* run() on a whole tree, and run() again on the tree it left *)

RunTrees ==
    {TreeOf((ProductProp :> a) @@ (SystemProp :> b) @@ (VendorProp :> c)) :
        a \in {<<>>,
               Lf(<<<<"ro.build.tags", "=">>,
                    <<"ro.build.description", "=", "stock">>>>),
               Lf(<<<<"ro.product.mod_device", "=", "marble">>,
                    <<"ro.miui.density.primaryscale", "=", "1.0">>>>),
               File(<<<<"ro.build.date.utc", "=", "0">>,
                      <<" ", "ro.product.brand", "=", "POCO", " ">>>>, "CRLF"),
               File(<<<<DensityKey, "=", "440">>>>, "NOEOL")},
        b \in {<<>>,
               Lf(<<<<"ro.build.fingerprint", "=", "stock">>,
                    <<"ro.product.mod_device", "=", "mondrian">>>>)},
        c \in {<<>>,
               Lf(<<<<Cgroup, "=", "1">>, Platform \o <<"sm8550">>>>),
               Lf(<<<<"#", DensityV2, "=", "440">>,
                    <<"ro.miui.density.primaryscale", "=", "2.0">>>>)}}

RunConfigs ==
    {NoConfig,
     [NoConfig EXCEPT !.state = "malformed"],
     Config(<<Entry(<<"ro.product.mod_device">>, <<"{base_code}">>),
              Entry(<<"ro.build.date.utc">>, <<"{build_utc}">>)>>, <<>>, <<>>),
     Config(<<Entry(<<"ro.build.date.utc">>, <<"{build_utc}">>),
              Entry(<<Host>>, <<"{device}">>)>>, <<>>, <<>>),
     Config(<<>>, <<>>, <<>>),
     Config(<<Entry(<<"ro.miui.density.primaryscale">>, <<"2.0">>)>>, <<>>, <<>>)}

Init ==
    \E t \in RunTrees : \E u \in {{}, {VendorProp} \cap DOMAIN t} :
    \E cf \in RunConfigs :
    \E sc \in {NoScheduler, [state |-> "ok", table |-> Profiles]} :
        Start(t, u, AlphabeticalWalk, cf, sc, Context(FALSE, "15", NoStock),
              "general", 1, NoCall)

Next ==
    \/ _update_general_info
    \/ _update_density
    \/ _apply_specific_fixes
    \/ _regenerate_fingerprint
    \/ _optimize_core_affinity
    \/ run

Spec == Init /\ [][Next]_vars

\* C1: a second run() on the tree the first one left, with the clock, the
\* context and the tables unchanged, writes no file and leaves every file's
\* content as the first run left it.
C1_SecondRunIdle ==
    (runs = 2 /\ pc = "done" /\ now = 0) => (written = {} /\ tree = first)

\* The stripped lines of a content.
Stripped(content) == [i \in 1..Len(content) |-> strip(content[i].txt)]

\* C10: every write event changes the content of its file, and the stripped
\* text of at least one of its lines.
C10_WritesChange ==
    \A i \in 1..Len(writes) :
        /\ writes[i].old # writes[i].new
        /\ Stripped(writes[i].old) # Stripped(writes[i].new)

-----------------------------------------------------------------------------
(* A template with an undefined placeholder *)

\* The merged rule set holds a template with a placeholder that fmt_map
\* does not define.
UndefinedPlaceholder ==
    /\ config.state = "ok"
    /\ \E i \in 1..Len(replacements) : KeyError(replacements[i].val)

\* C11: when a template of the merged rule set names an undefined
\* placeholder, run() stops in the general-info pass: no later pass acts and
\* no file of the tree has been written or changed.
C11_FatalTemplate ==
    UndefinedPlaceholder =>
        /\ pc \in {"general", "failed"}
        /\ last \in {"init", "general"}
        /\ writes = <<>>
        /\ written = {}
        /\ tree = first

\* The run has failed in the general-info pass on a table whose first rule
\* is well-formed and matches a line of the product file.
C11_Witness ==
    /\ UndefinedPlaceholder
    /\ pc = "failed"
    /\ last = "general"
    /\ ~KeyError(replacements[1].val)
    /\ ProductProp \in DOMAIN tree
    /\ \E i \in 1..Len(tree[ProductProp]) :
           startswith(strip(tree[ProductProp][i].txt), replacements[1].key \o <<"=">>)

-----------------------------------------------------------------------------
(* The deprecated key *)

\* The lines, as <<path, index>>, of tree t whose stripped text starts with
\* the deprecated key.
Deprecated(t) ==
    {l \in UNION {{<<p, i>> : i \in 1..Len(t[p])} : p \in DOMAIN t} :
        startswith(strip(t[l[1]][l[2]].txt), DeprecatedPrefix)}

\* C12 as claimed: after the general-info pass no file holds a line that
\* starts with the deprecated key, whatever the rule table is, and also when
\* it is missing or malformed.
C12_AlwaysDropped ==
    (last = "general" /\ pc # "failed") => Deprecated(tree) = {}

\* C12: when the rule table has loaded (an empty one included), after the
\* general-info pass the only lines left that start with the deprecated key
\* are those that start with the prefix of a configured rule; when the table
\* is missing or malformed the pass writes nothing and every line stays.
C12_Dropped ==
    (last = "general" /\ pc # "failed") =>
        IF config.state = "ok"
        THEN LET R == final_replacements IN
             \A l \in Deprecated(tree) : Matching(tree[l[1]][l[2]].txt, R) # {}
        ELSE tree = before /\ writes = <<>>

\* The table has loaded, two files held a line with the deprecated key, and
\* the pass has rewritten both without it.
C12_Witness ==
    /\ last = "general"
    /\ pc # "failed"
    /\ config.state = "ok"
    /\ {ProductProp, VendorProp} \subseteq WrittenNow
    /\ {l[1] : l \in Deprecated(before)} = {ProductProp, VendorProp}
    /\ Deprecated(tree) = {}

-----------------------------------------------------------------------------
(* The synthesized fingerprint and description *)

\* brand/name/device:version/id/incremental:type/tags of the components the
\* pass resolved.
Fingerprint ==
    LET c == components IN
    c.brand \o <<"/">> \o c.name \o <<"/">> \o c.device \o <<":">>
    \o c.version \o <<"/">> \o c.build_id \o <<"/">> \o c.incremental
    \o <<":">> \o c.build_type \o <<"/">> \o c.tags

\* name-type version id incremental tags
Description ==
    LET c == components IN
    c.name \o <<"-">> \o c.build_type \o <<" ">> \o c.version \o <<" ">>
    \o c.build_id \o <<" ">> \o c.incremental \o <<" ">> \o c.tags

\* The rules of table R that replace a line by its key and the value.
RulesTo(R, value) ==
    {i \in 1..Len(R) : R[i].new_val = R[i].prefix \o value}

\* Every line of the readable files that starts with one of the keys reads
\* key=value, blanks at its ends aside.
Carry(keys, value) ==
    \A l \in LinesOf(keys) :
        LET s == strip(tree[l[1]][l[2]].txt) IN
        s = strip(<<s[1], "=">> \o value)

\* The pass builds n rules to the fingerprint and two to the description,
\* and the lines of the readable files under their keys carry these values.
Synthesized(n) ==
    last = "fingerprint" =>
        LET R == fingerprint_rules(before) IN
        /\ Cardinality(RulesTo(R, Fingerprint)) = n
        /\ Cardinality(RulesTo(R, Description)) = 2
        /\ Len(R) = n + 2
        /\ Carry(FingerprintKeys, Fingerprint)
        /\ Carry(DescriptionKeys, Description)

\* C13 as claimed: the fingerprint and the description have the stated
\* layout, and the pass builds eight fingerprint-key rules and two
\* description-key rules.
C13_EightKeys == Synthesized(8)

\* C13: the fingerprint and the description have the stated layout, and the
\* pass builds seven fingerprint-key rules and two description-key rules.
C13_SevenKeys == Synthesized(7)

\* The components of the example, and a file that held every key now holds
\* the example's fingerprint under each fingerprint key.
C13_Witness ==
    /\ last = "fingerprint"
    /\ Fingerprint = <<"Xiaomi", "/", "Port", "/", "miproduct", ":", "14", "/",
                       "AB1", "/", "100", ":", "user", "/", "release-keys">>
    /\ SystemProp \in WrittenNow
    /\ \A k \in 1..Len(FingerprintKeys) :
           <<FingerprintKeys[k], "=">> \o Fingerprint
               \in {tree[SystemProp][i].txt : i \in 1..Len(tree[SystemProp])}
    /\ <<"ro.build.description", "=", "Port", "-", "user", " ", "14", " ", "AB1",
          " ", "100", " ", "release-keys">>
           \in {tree[SystemProp][i].txt : i \in 1..Len(tree[SystemProp])}

-----------------------------------------------------------------------------
(* The order of the passes *)

NameKey == "ro.product.mod_device"

\* The rules of the merged general-info table for the name component.
NameRules ==
    IF config.state # "ok" THEN {}
    ELSE {i \in 1..Len(replacements) : Head(replacements[i].key) = NameKey}

\* The table has one rule for the name component, keyed by the bare key, and
\* when run() began a readable file of a searched partition held a line for
\* it.
NameRewritten ==
    /\ NameRules # {}
    /\ \A i \in NameRules : replacements[i].key = <<NameKey>>
    /\ \E p \in DOMAIN first \ unreadable :
        /\ PartOf(p) \in {"product", "system", "vendor", "mi_ext"}
        /\ KeyLines(first[p], NameKey) # {}

\* C14: the passes act in the order general info, density, specific fixes,
\* fingerprint, scheduler, each on the tree the one before it left; the name
\* the fingerprint pass resolves is the value the general-info rule wrote,
\* not the one the tree held when run() began.
C14_PassOrder ==
    [][/\ last' = "general" => last \in {"init", "run"}
       /\ last' = "density" => last = "general"
       /\ last' = "fixes" => last = "density"
       /\ last' = "fingerprint" => last = "fixes"
       /\ last' = "scheduler" => last = "fingerprint"
       /\ last' = "run" => last = "scheduler"
       /\ last' \in {"general", "density", "fixes", "fingerprint", "scheduler"}
              => before' = tree
       /\ (last' = "fingerprint" /\ NameRewritten) =>
              \A i \in NameRules :
                  components'.name = strip(format(replacements[i].val))
      ]_vars

\* The product file named the device marble when run() began, the table
\* rewrites the name to the base code, and the fingerprint pass has resolved
\* the base code and written a fingerprint.
C14_Witness ==
    /\ last = "fingerprint"
    /\ runs = 1
    /\ NameRewritten
    /\ ProductProp \in DOMAIN first
    /\ <<NameKey, "=", "marble">>
           \in {first[ProductProp][i].txt : i \in 1..Len(first[ProductProp])}
    /\ components.name = <<ctx.stock_rom_code>>
    /\ SystemProp \in WrittenNow

-----------------------------------------------------------------------------
(* What update-or-append leaves in the file *)

\* The texts of the lines of a content that are not blank and do not start
\* with key=: the lines of other keys, and the comment lines.
OtherLines(content, key) ==
    LET keep == SelectSeq(content,
                    LAMBDA l : /\ strip(l.txt) # <<>>
                               /\ ~startswith(strip(l.txt), <<key, "=">>))
    IN  [i \in 1..Len(keep) |-> keep[i].txt]

\* C15: after update-or-append on an existing file, the file has a line
\* that reads exactly key=value, and the lines of other keys and the comment
\* lines are as they were before the call.
C15_Postcondition ==
    (last = "call" /\ pc # "failed" /\ ProductProp \in DOMAIN tree) =>
        /\ \E i \in 1..Len(tree[ProductProp]) :
               strip(tree[ProductProp][i].txt) = <<call.key, "=">> \o call.value
        /\ OtherLines(tree[ProductProp], call.key)
               = OtherLines(before[ProductProp], call.key)

====
